---- MODULE Spec2Model ----
(***************************************************************************)
(* Model of the tank actuator layer: the GPIO compatibility layer          *)
(* (src/src/gpio_compat.py) and the motor drivers and coordinator          *)
(* (src/src/motor_control.py).                                             *)
(*                                                                         *)
(* Every public method is one action.  A method body is translated into    *)
(* the sequence of GPIO-level calls it issues (GPIO.output, GPIO.cleanup,  *)
(* pwm.ChangeDutyCycle, ...), in program order, and the action applies     *)
(* that whole sequence to the state.  The sequence issued by the last call *)
(* is kept in the history variable trace, so that properties about single  *)
(* pin writes and about the order of writes can be stated.                 *)
(*                                                                         *)
(* The libraries lgpio and RPi.GPIO are not part of the repository.  Their *)
(* calls are modelled by their plain effect (a written level is the level  *)
(* of the line, an opened chip handle is open until closed); their own     *)
(* argument checks are not modelled.                                       *)
(***************************************************************************)
EXTENDS Integers, Sequences, FiniteSets, TLC

VARIABLES
    PI5_AVAILABLE,      \* gpio_compat: lgpio could be imported
    RPI_GPIO_AVAILABLE, \* gpio_compat: RPi.GPIO could be imported
    cfg,                \* pin assignment and steps_per_rev handed to the constructors
    GPIO_handle,        \* GPIO._handle
    pwm_instances,      \* GPIO._pwm_instances (keys)
    opened,             \* lgpio: chip handles opened and not yet closed
    nOpened,            \* lgpio: number of gpiochip_open calls so far
    claimed,            \* lgpio: <<handle, pin>> claimed as output
    rpi_setup,          \* RPi.GPIO: pins set up as output
    level,              \* per provider, the level last written to each pin
    pwm,                \* the PWM objects, keyed by their pin
    current_step,       \* StepperMotor.current_step
    released,           \* history: the object's cleanup() has completed
    callsAfter,         \* history: number of calls made since cleanup() completed
    last,               \* history: the last call and its arguments
    raised,             \* history: the last call ended by raising an exception
    trace               \* history: the GPIO-level calls issued by the last call

vars == <<PI5_AVAILABLE, RPI_GPIO_AVAILABLE, cfg, GPIO_handle, pwm_instances, opened,
          nOpened, claimed, rpi_setup, level, pwm, current_step, released,
          callsAfter, last, raised, trace>>

(***************************************************************************)
(* Values                                                                  *)
(***************************************************************************)
HIGH == 1
LOW == 0
\* Python's None, for an absent pin, an absent duration and a closed handle.
None == -1

Providers == {"lgpio", "rpi", "sim"}

\* Python truthiness of an optional pin number: None and 0 are both false.
Truthy(x) == x # None /\ x # 0

Abs(x) == IF x < 0 THEN -x ELSE x

(***************************************************************************)
(* Inputs                                                                  *)
(***************************************************************************)
Speeds == {0, 50, 100}
Durations == {None, 0, 1}
Degrees == {-360, -90, -45, -1, 0, 1, 45, 90, 360}
PanDegrees == {-45, 90}
RotateSpeeds == {0, 500}
Directions == {1, -1}
\* Duty cycles handed to the PWM objects directly.
Duties == {0, 1, 50, 100}
\* The pins PWM objects are created on by a script that uses GPIO directly.
ScriptPwmPins == {1, 6}

\* A rotation is executed when it takes at most MaxSteps steps.
MaxSteps == 50
\* Calls explored after cleanup() has completed.
MaxCallsAfterRelease == 1

AllPins == 1..16

BankPins(ena, in1, in2, in3, in4, enb) ==
    [ena |-> ena, in1 |-> in1, in2 |-> in2, in3 |-> in3, in4 |-> in4, enb |-> enb]

\* The optional channel-B pins of the left bank: each supplied or not (None),
\* and two assignments with a pin number of 0.
LeftChannelB ==
    ({4, None} \X {5, None} \X {6, None}) \cup {<<0, 5, 6>>, <<4, 5, 0>>}

LeftFull == BankPins(1, 2, 3, 4, 5, 6)
RightFull == BankPins(7, 8, 9, 10, 11, 12)
GimbalPins == <<13, 14, 15, 16>>

\* missing: the section of motors.yml that is absent ("none": all are present).
TankConfig(l, r, spr) ==
    [kind |-> "tank", left |-> l, right |-> r, gimbal |-> GimbalPins, steps_per_rev |-> spr,
     missing |-> "none"]

\* motors.yml without the pins of the left bank, of the right bank, or without
\* the camera gimbal section.
MissingSections == {"left", "right", "gimbal"}

TankConfigs ==
    { TankConfig(LeftFull, RightFull, 200),
      TankConfig(BankPins(1, 2, 3, None, None, None), RightFull, 200) }

GimbalConfigs ==
    { TankConfig(LeftFull, RightFull, 200), TankConfig(LeftFull, RightFull, 48) }

ConstructConfigs ==
    TankConfigs
    \cup { [TankConfig(LeftFull, RightFull, 200) EXCEPT !.missing = m] : m \in MissingSections }

DriverConfigs ==
    { TankConfig(BankPins(1, 2, 3, b[1], b[2], b[3]), RightFull, 200) : b \in LeftChannelB }

PwmPins == {1, 6, 7, 12}

(***************************************************************************)
(* GPIO-level calls                                                        *)
(***************************************************************************)
Op(k, pin, val) == [k |-> k, pin |-> pin, val |-> val]

Setmode == Op("setmode", None, None)                \* GPIO.setmode(GPIO.BCM)
Setup(pin) == Op("setup", pin, None)                \* GPIO.setup(pin, GPIO.OUT)
Output(pin, value) == Op("output", pin, value)      \* GPIO.output(pin, value)
Cleanup == Op("cleanup", None, None)                \* GPIO.cleanup()
NewPWM(pin, frequency) == Op("PWM", pin, frequency) \* GPIO.PWM(pin, frequency)
Start(pin, duty) == Op("start", pin, duty)          \* pwm.start(duty)
ChangeDuty(pin, duty) == Op("ChangeDutyCycle", pin, duty) \* pwm.ChangeDutyCycle(duty)
StopPWM(pin) == Op("stop", pin, None)               \* pwm.stop()
\* StepperMotor.step_motor: the update of current_step, then the write of coil i
Advance(direction) == Op("advance", None, direction)
Coil(pin, i) == Op("coil", pin, i)

(***************************************************************************)
(* The state the calls act on, as one record                               *)
(***************************************************************************)
Cur ==
    [handle |-> GPIO_handle, pwm_instances |-> pwm_instances, opened |-> opened,
     nOpened |-> nOpened, claimed |-> claimed, rpi_setup |-> rpi_setup,
     level |-> level, pwm |-> pwm, current_step |-> current_step]

NoPwm ==
    [made |-> FALSE, kind |-> "none", handle |-> None, frequency |-> None,
     duty_cycle |-> 0, running |-> FALSE, tx_freq |-> None, tx_duty |-> None]

\* The module-level state of gpio_compat before any constructor has run.
Blank ==
    [handle |-> None, pwm_instances |-> {}, opened |-> {}, nOpened |-> 0,
     claimed |-> {}, rpi_setup |-> {},
     level |-> [b \in Providers |-> [p \in AllPins |-> LOW]],
     pwm |-> [p \in PwmPins |-> NoPwm], current_step |-> 0]

(***************************************************************************)
(* gpio_compat.py: PWM classes                                             *)
(***************************************************************************)
\* int((duty_cycle / 100.0) * 1000000); the double arithmetic is exact for
\* every integer duty in 0..100.
\* Faulty variant: the division is done first, in integers.
DutyToLgpio_DivideFirst(duty_cycle) == (duty_cycle \div 100) * 1000000

DutyToLgpio(duty_cycle) == (duty_cycle * 1000000) \div 100

LgpioPWM_init(handle, frequency) ==
    [made |-> TRUE, kind |-> "lgpio", handle |-> handle, frequency |-> frequency,
     duty_cycle |-> 0, running |-> FALSE, tx_freq |-> None, tx_duty |-> None]

LgpioPWM_start(w, duty_cycle) ==
    LET w1 == [w EXCEPT !.duty_cycle = duty_cycle]
        w2 == IF w1.handle # None
              THEN [w1 EXCEPT !.tx_freq = w1.frequency, !.tx_duty = DutyToLgpio(duty_cycle)]
              ELSE w1
    IN [w2 EXCEPT !.running = TRUE]

\* Faulty variant: the duty is emitted but not stored.
LgpioPWM_ChangeDutyCycle_NoStore(w, duty_cycle) ==
    IF w.running /\ w.handle # None
    THEN [w EXCEPT !.tx_freq = w.frequency, !.tx_duty = DutyToLgpio(duty_cycle)]
    ELSE w

LgpioPWM_ChangeDutyCycle(w, duty_cycle) ==
    LET w1 == [w EXCEPT !.duty_cycle = duty_cycle]
    IN IF w1.running /\ w1.handle # None
       THEN [w1 EXCEPT !.tx_freq = w1.frequency, !.tx_duty = DutyToLgpio(duty_cycle)]
       ELSE w1

LgpioPWM_stop(w) ==
    LET w1 == IF w.handle # None THEN [w EXCEPT !.tx_freq = 0, !.tx_duty = 0] ELSE w
    IN [w1 EXCEPT !.running = FALSE]

SimulatedPWM_init(frequency) ==
    [made |-> TRUE, kind |-> "sim", handle |-> None, frequency |-> frequency,
     duty_cycle |-> 0, running |-> FALSE, tx_freq |-> None, tx_duty |-> None]

SimulatedPWM_start(w, duty_cycle) == [w EXCEPT !.duty_cycle = duty_cycle]

SimulatedPWM_ChangeDutyCycle(w, duty_cycle) == [w EXCEPT !.duty_cycle = duty_cycle]

SimulatedPWM_stop(w) == w

\* RPI_GPIO_MODULE.PWM: the library's own object, kept as the duty it was
\* given and whether it was started.
RpiPWM_init(frequency) ==
    [made |-> TRUE, kind |-> "rpi", handle |-> None, frequency |-> frequency,
     duty_cycle |-> 0, running |-> FALSE, tx_freq |-> None, tx_duty |-> None]

PWM_start(w, duty_cycle) ==
    CASE w.kind = "lgpio" -> LgpioPWM_start(w, duty_cycle)
      [] w.kind = "sim" -> SimulatedPWM_start(w, duty_cycle)
      [] w.kind = "rpi" -> [w EXCEPT !.duty_cycle = duty_cycle, !.running = TRUE]
      [] OTHER -> w

PWM_ChangeDutyCycle(w, duty_cycle) ==
    CASE w.kind = "lgpio" -> LgpioPWM_ChangeDutyCycle(w, duty_cycle)
      [] w.kind = "sim" -> SimulatedPWM_ChangeDutyCycle(w, duty_cycle)
      [] w.kind = "rpi" -> [w EXCEPT !.duty_cycle = duty_cycle]
      [] OTHER -> w

PWM_stop(w) ==
    CASE w.kind = "lgpio" -> LgpioPWM_stop(w)
      [] w.kind = "sim" -> SimulatedPWM_stop(w)
      [] w.kind = "rpi" -> [w EXCEPT !.running = FALSE]
      [] OTHER -> w

(***************************************************************************)
(* gpio_compat.py: class GPIO                                              *)
(***************************************************************************)
GPIO_setmode(s) ==
    IF PI5_AVAILABLE
    THEN [s EXCEPT !.handle = s.nOpened + 1,
                   !.opened = @ \cup {s.nOpened + 1},
                   !.nOpened = @ + 1]
    ELSE s

GPIO_setup(s, pin) ==
    IF PI5_AVAILABLE /\ s.handle # None
    THEN [s EXCEPT !.claimed = @ \cup {<<s.handle, pin>>}]
    ELSE IF RPI_GPIO_AVAILABLE
         THEN [s EXCEPT !.rpi_setup = @ \cup {pin}]
         ELSE s

\* The provider a GPIO.output call is served by.
OutputProvider(s) ==
    IF PI5_AVAILABLE /\ s.handle # None THEN "lgpio"
    ELSE IF RPI_GPIO_AVAILABLE THEN "rpi" ELSE "sim"

GPIO_output(s, pin, value) ==
    [s EXCEPT !.level[OutputProvider(s)][pin] = value]

GPIO_cleanup(s) ==
    IF PI5_AVAILABLE /\ s.handle # None
    THEN [s EXCEPT !.pwm = [p \in PwmPins |->
                               IF p \in s.pwm_instances THEN PWM_stop(@[p]) ELSE @[p]],
                   !.pwm_instances = {},
                   !.opened = @ \ {s.handle},
                   !.claimed = {c \in @ : c[1] # s.handle},
                   !.handle = None]
    ELSE IF RPI_GPIO_AVAILABLE
         THEN [s EXCEPT !.rpi_setup = {}]
         ELSE s

GPIO_PWM(s, pin, frequency) ==
    [s EXCEPT !.pwm[pin] =
        IF PI5_AVAILABLE THEN LgpioPWM_init(s.handle, frequency)
        ELSE IF RPI_GPIO_AVAILABLE THEN RpiPWM_init(frequency)
        ELSE SimulatedPWM_init(frequency)]

(***************************************************************************)
(* motor_control.py: class L298NMotorController (self is the pin record p) *)
(***************************************************************************)
L298N_init_setup(p) ==
    <<Setmode, Setup(p.ena), Setup(p.in1), Setup(p.in2)>>
    \o (IF Truthy(p.in3) /\ Truthy(p.in4) /\ Truthy(p.enb)
        THEN <<Setup(p.in3), Setup(p.in4), Setup(p.enb)>>
        ELSE <<>>)

L298N_init_pwm(p) ==
    <<NewPWM(p.ena, 1000), Start(p.ena, 0)>>
    \o (IF Truthy(p.enb) THEN <<NewPWM(p.enb, 1000), Start(p.enb, 0)>> ELSE <<>>)

\* hasattr(self, "pwm_b"): pwm_b is assigned by __init__ exactly when enb_pin is true
has_pwm_b(p) == Truthy(p.enb)

\* Faulty variant: the duty is set on both enable lines of the bank.
motor_a_forward_BothEnables(p, speed) ==
    <<Output(p.in1, HIGH), Output(p.in2, LOW), ChangeDuty(p.ena, speed)>>
    \o (IF Truthy(p.enb) THEN <<ChangeDuty(p.enb, speed)>> ELSE <<>>)

motor_a_forward(p, speed) ==
    <<Output(p.in1, HIGH), Output(p.in2, LOW), ChangeDuty(p.ena, speed)>>

\* Faulty variant: the duty is changed between the two direction writes.
motor_a_backward_DutyBetween(p, speed) ==
    <<Output(p.in1, LOW), ChangeDuty(p.ena, speed), Output(p.in2, HIGH)>>

motor_a_backward(p, speed) ==
    <<Output(p.in1, LOW), Output(p.in2, HIGH), ChangeDuty(p.ena, speed)>>

motor_b_forward(p, speed) ==
    IF Truthy(p.in3) /\ Truthy(p.in4) /\ Truthy(p.enb)
    THEN <<Output(p.in3, HIGH), Output(p.in4, LOW), ChangeDuty(p.enb, speed)>>
    ELSE <<>>

\* Faulty variant: the direction writes of motor_b_forward copied unchanged.
motor_b_backward_Swapped(p, speed) ==
    IF Truthy(p.in3) /\ Truthy(p.in4) /\ Truthy(p.enb)
    THEN <<Output(p.in3, HIGH), Output(p.in4, LOW), ChangeDuty(p.enb, speed)>>
    ELSE <<>>

motor_b_backward(p, speed) ==
    IF Truthy(p.in3) /\ Truthy(p.in4) /\ Truthy(p.enb)
    THEN <<Output(p.in3, LOW), Output(p.in4, HIGH), ChangeDuty(p.enb, speed)>>
    ELSE <<>>

\* Faulty variant: the direction pins are lowered and the duty is left as it was.
stop_motor_a_NoDuty(p) == <<Output(p.in1, LOW), Output(p.in2, LOW)>>

stop_motor_a(p) ==
    <<Output(p.in1, LOW), Output(p.in2, LOW), ChangeDuty(p.ena, 0)>>

\* Faulty variant: the direction pins are lowered and the duty is left as it was.
stop_motor_b_NoDuty(p) ==
    IF Truthy(p.in3) /\ Truthy(p.in4)
    THEN <<Output(p.in3, LOW), Output(p.in4, LOW)>>
    ELSE <<>>

stop_motor_b(p) ==
    IF Truthy(p.in3) /\ Truthy(p.in4)
    THEN <<Output(p.in3, LOW), Output(p.in4, LOW)>>
         \o (IF Truthy(p.enb) THEN <<ChangeDuty(p.enb, 0)>> ELSE <<>>)
    ELSE <<>>

L298N_stop_all(p) == stop_motor_a(p) \o stop_motor_b(p)

L298N_init(p) == L298N_init_setup(p) \o L298N_init_pwm(p) \o L298N_stop_all(p)

L298N_cleanup(p) ==
    L298N_stop_all(p)
    \o <<StopPWM(p.ena)>>
    \o (IF has_pwm_b(p) THEN <<StopPWM(p.enb)>> ELSE <<>>)
    \o <<Cleanup>>

(***************************************************************************)
(* motor_control.py: class StepperMotor                                    *)
(***************************************************************************)
step_sequence == <<<<1, 0, 0, 0>>, <<0, 1, 0, 0>>, <<0, 0, 1, 0>>, <<0, 0, 0, 1>>>>

\* Faulty variant: the direction argument is ignored.
NextStep_AlwaysForward(step, direction) == (step + 1) % 4

\* step_motor: the new value of self.current_step
NextStep(step, direction) ==
    IF direction > 0 THEN (step + 1) % 4 ELSE (step - 1) % 4

Stepper_init(pins) ==
    <<Setmode,
      Setup(pins[1]), Output(pins[1], LOW), Setup(pins[2]), Output(pins[2], LOW),
      Setup(pins[3]), Output(pins[3], LOW), Setup(pins[4]), Output(pins[4], LOW)>>

step_motor(pins, direction) ==
    <<Advance(direction),
      Coil(pins[1], 1), Coil(pins[2], 2), Coil(pins[3], 3), Coil(pins[4], 4)>>

\* The double arithmetic of (abs(degrees) / 360) * steps_per_rev falls just
\* below the exact quotient for these <<abs(degrees), steps_per_rev>>, so that
\* int() gives one step less (among abs(degrees) <= 720 at 48 and 200 steps).
FloatShort == {<<207, 200>>, <<369, 200>>, <<414, 200>>, <<459, 200>>}

\* steps = int((abs(degrees) / 360) * self.steps_per_rev)
StepsFor(degrees, steps_per_rev) ==
    LET exact == (Abs(degrees) * steps_per_rev) \div 360
    IN IF <<Abs(degrees), steps_per_rev>> \in FloatShort THEN exact - 1 ELSE exact

\* Faulty variant: the sign of degrees is ignored.
DirectionFor_AlwaysForward(degrees) == 1

\* direction = 1 if degrees > 0 else -1
DirectionFor(degrees) == IF degrees > 0 THEN 1 ELSE -1

\* rotate_degrees: delay = 1.0 / speed raises ZeroDivisionError for speed 0,
\* before the first step; otherwise steps calls of step_motor.
rotate_raises(speed) == speed = 0

rotate_degrees(pins, steps_per_rev, degrees, speed) ==
    IF rotate_raises(speed)
    THEN <<>>
    ELSE LET steps == StepsFor(degrees, steps_per_rev)
             one == step_motor(pins, DirectionFor(degrees))
         IN [i \in 1..(5 * steps) |-> one[((i - 1) % 5) + 1]]

\* Faulty variant: the last coil pin is not written.
Stepper_stop_ThreeCoils(pins) ==
    <<Output(pins[1], LOW), Output(pins[2], LOW), Output(pins[3], LOW)>>

Stepper_stop(pins) ==
    <<Output(pins[1], LOW), Output(pins[2], LOW), Output(pins[3], LOW), Output(pins[4], LOW)>>

(***************************************************************************)
(* motor_control.py: class TankController (self is the configuration c)    *)
(***************************************************************************)
\* _init_motors: each section of motors.yml is looked up just before its
\* controller is constructed; a missing section raises KeyError there.
init_raises(c) == c.missing # "none"

init_motors(c) ==
    IF c.missing = "left" THEN <<>>
    ELSE L298N_init(c.left)
         \o (IF c.missing = "right" THEN <<>>
             ELSE L298N_init(c.right)
                  \o (IF c.missing = "gimbal" THEN <<>> ELSE Stepper_init(c.gimbal)))

Tank_stop_all(c) == L298N_stop_all(c.left) \o L298N_stop_all(c.right)

\* if duration: time.sleep(duration); self.stop_all()
after_duration(c, duration) == IF Truthy(duration) THEN Tank_stop_all(c) ELSE <<>>

move_forward(c, speed, duration) ==
    motor_a_forward(c.left, speed) \o motor_b_forward(c.left, speed)
    \o motor_a_forward(c.right, speed) \o motor_b_forward(c.right, speed)
    \o after_duration(c, duration)

move_backward(c, speed, duration) ==
    motor_a_backward(c.left, speed) \o motor_b_backward(c.left, speed)
    \o motor_a_backward(c.right, speed) \o motor_b_backward(c.right, speed)
    \o after_duration(c, duration)

turn_left(c, speed, duration) ==
    motor_a_backward(c.left, speed) \o motor_b_backward(c.left, speed)
    \o motor_a_forward(c.right, speed) \o motor_b_forward(c.right, speed)
    \o after_duration(c, duration)

\* Faulty variant: turn_right drives the banks as turn_left does.
turn_right_AsLeft(c, speed, duration) ==
    motor_a_backward(c.left, speed) \o motor_b_backward(c.left, speed)
    \o motor_a_forward(c.right, speed) \o motor_b_forward(c.right, speed)
    \o after_duration(c, duration)

turn_right(c, speed, duration) ==
    motor_a_forward(c.left, speed) \o motor_b_forward(c.left, speed)
    \o motor_a_backward(c.right, speed) \o motor_b_backward(c.right, speed)
    \o after_duration(c, duration)

\* pan_camera: self.gimbal.rotate_degrees(degrees), speed left at its default 500
pan_camera(c, degrees) == rotate_degrees(c.gimbal, c.steps_per_rev, degrees, 500)

Tank_cleanup(c) ==
    L298N_cleanup(c.left) \o L298N_cleanup(c.right) \o Stepper_stop(c.gimbal) \o <<Cleanup>>

(***************************************************************************)
(* Execution of a sequence of GPIO-level calls                             *)
(***************************************************************************)
Apply(s, op) ==
    CASE op.k = "setmode" -> GPIO_setmode(s)
      [] op.k = "setup" -> GPIO_setup(s, op.pin)
      [] op.k = "output" -> GPIO_output(s, op.pin, op.val)
      [] op.k = "cleanup" -> GPIO_cleanup(s)
      [] op.k = "PWM" -> GPIO_PWM(s, op.pin, op.val)
      [] op.k = "start" -> [s EXCEPT !.pwm[op.pin] = PWM_start(@, op.val)]
      [] op.k = "ChangeDutyCycle" -> [s EXCEPT !.pwm[op.pin] = PWM_ChangeDutyCycle(@, op.val)]
      [] op.k = "stop" -> [s EXCEPT !.pwm[op.pin] = PWM_stop(@)]
      \* step_motor: self.current_step = (self.current_step +/- 1) % 4
      [] op.k = "advance" -> [s EXCEPT !.current_step = NextStep(@, op.val)]
      \* step_motor: GPIO.output(pin, sequence[i])
      [] op.k = "coil" -> GPIO_output(s, op.pin, step_sequence[s.current_step + 1][op.val])

\* The calls ops[lo..hi], issued in order from state s.  The range is halved
\* and each half's result is bound to a name before it is used, which keeps
\* the evaluation linear in the number of calls.
RECURSIVE RunRange(_, _, _, _)
RunRange(s, ops, lo, hi) ==
    IF lo > hi THEN s
    ELSE IF lo = hi THEN Apply(s, ops[lo])
    ELSE LET mid == (lo + hi) \div 2
         IN CHOOSE r \in { RunRange(m, ops, mid + 1, hi) :
                             m \in { RunRange(s, ops, lo, mid) } } : TRUE

\* The state after the calls ops, issued in order from state s.
RunOps(s, ops) ==
    CHOOSE r \in { RunRange(s0, o, 1, Len(o)) : s0 \in {s}, o \in {ops} } : TRUE

\* The state after the first n calls of ops.
After(s, ops, n) == RunOps(s, SubSeq(ops, 1, n))

(***************************************************************************)
(* Actions: one per public method                                          *)
(***************************************************************************)
CallRec(op, a, d) == [op |-> op, a |-> a, d |-> d]

\* The call l issues the GPIO-level calls ops and returns (or raises);
\* rel: the call is the object's cleanup().
Do(l, ops, raises, rel) ==
    /\ ~init_raises(cfg)
    /\ released => callsAfter < MaxCallsAfterRelease
    /\ \E s \in {RunOps(Cur, ops)} :
       /\ GPIO_handle' = s.handle
       /\ pwm_instances' = s.pwm_instances
       /\ opened' = s.opened
       /\ nOpened' = s.nOpened
       /\ claimed' = s.claimed
       /\ rpi_setup' = s.rpi_setup
       /\ level' = s.level
       /\ pwm' = s.pwm
       /\ current_step' = s.current_step
    /\ released' = (released \/ rel)
    /\ callsAfter' = IF released THEN callsAfter + 1 ELSE 0
    /\ last' = l
    /\ raised' = raises
    /\ trace' = ops
    /\ UNCHANGED <<PI5_AVAILABLE, RPI_GPIO_AVAILABLE, cfg>>

\* The state after the constructor calls ops, from the blank module state.
Constructed(c, ops) ==
    /\ PI5_AVAILABLE \in BOOLEAN
    /\ RPI_GPIO_AVAILABLE \in BOOLEAN
    /\ cfg = c
    /\ \E s \in {RunOps(Blank, ops)} :
       /\ GPIO_handle = s.handle
       /\ pwm_instances = s.pwm_instances
       /\ opened = s.opened
       /\ nOpened = s.nOpened
       /\ claimed = s.claimed
       /\ rpi_setup = s.rpi_setup
       /\ level = s.level
       /\ pwm = s.pwm
       /\ current_step = s.current_step
    /\ released = FALSE
    /\ callsAfter = 0
    /\ last = CallRec("__init__", None, None)
    /\ raised = init_raises(c)
    /\ trace = ops

----------------------------------------------------------------------------
\* TankController

\* TankController(config_dir): _init_motors
Init == \E c \in TankConfigs : Constructed(c, init_motors(c))

MoveForward ==
    \E speed \in Speeds, duration \in Durations :
        Do(CallRec("move_forward", speed, duration),
           move_forward(cfg, speed, duration), FALSE, FALSE)

MoveBackward ==
    \E speed \in Speeds, duration \in Durations :
        Do(CallRec("move_backward", speed, duration),
           move_backward(cfg, speed, duration), FALSE, FALSE)

TurnLeft ==
    \E speed \in Speeds, duration \in Durations :
        Do(CallRec("turn_left", speed, duration),
           turn_left(cfg, speed, duration), FALSE, FALSE)

TurnRight ==
    \E speed \in Speeds, duration \in Durations :
        Do(CallRec("turn_right", speed, duration),
           turn_right(cfg, speed, duration), FALSE, FALSE)

StopAll ==
    Do(CallRec("stop_all", None, None), Tank_stop_all(cfg), FALSE, FALSE)

PanCamera ==
    \E degrees \in PanDegrees :
        /\ StepsFor(degrees, cfg.steps_per_rev) <= MaxSteps
        /\ Do(CallRec("pan_camera", degrees, None), pan_camera(cfg, degrees), FALSE, FALSE)

TankCleanup ==
    Do(CallRec("cleanup", None, None), Tank_cleanup(cfg), FALSE, TRUE)

Next ==
    \/ MoveForward
    \/ MoveBackward
    \/ TurnLeft
    \/ TurnRight
    \/ StopAll
    \/ PanCamera
    \/ TankCleanup

Spec == Init /\ [][Next]_vars

\* TankController(config_dir) with a motors.yml that may lack a section: the
\* constructor raises and no object exists to call.
InitConstruct == \E c \in ConstructConfigs : Constructed(c, init_motors(c))

SpecConstruct == InitConstruct /\ [][Next]_vars

----------------------------------------------------------------------------
\* The turret of a TankController: tank.gimbal

InitGimbal == \E c \in GimbalConfigs : Constructed(c, init_motors(c))

\* tank.gimbal.step_motor(direction)
StepMotor ==
    \E direction \in Directions :
        Do(CallRec("step_motor", direction, None),
           step_motor(cfg.gimbal, direction), FALSE, FALSE)

\* tank.gimbal.rotate_degrees(degrees, speed)
RotateDegrees ==
    \E degrees \in Degrees, speed \in RotateSpeeds :
        /\ StepsFor(degrees, cfg.steps_per_rev) <= MaxSteps
        /\ Do(CallRec("rotate_degrees", degrees, speed),
              rotate_degrees(cfg.gimbal, cfg.steps_per_rev, degrees, speed),
              rotate_raises(speed), FALSE)

\* tank.gimbal.stop()
GimbalStop ==
    Do(CallRec("gimbal_stop", None, None), Stepper_stop(cfg.gimbal), FALSE, FALSE)

NextGimbal ==
    \/ StepMotor
    \/ RotateDegrees
    \/ PanCamera
    \/ GimbalStop
    \/ TankCleanup

SpecGimbal == InitGimbal /\ [][NextGimbal]_vars

----------------------------------------------------------------------------
\* The left bank's driver, called directly: tank.left_controller

InitDriver == \E c \in DriverConfigs : Constructed(c, init_motors(c))

MotorAForward ==
    \E speed \in Speeds :
        Do(CallRec("left.motor_a_forward", speed, None), motor_a_forward(cfg.left, speed),
           FALSE, FALSE)

MotorABackward ==
    \E speed \in Speeds :
        Do(CallRec("left.motor_a_backward", speed, None), motor_a_backward(cfg.left, speed),
           FALSE, FALSE)

MotorBForward ==
    \E speed \in Speeds :
        Do(CallRec("left.motor_b_forward", speed, None), motor_b_forward(cfg.left, speed),
           FALSE, FALSE)

MotorBBackward ==
    \E speed \in Speeds :
        Do(CallRec("left.motor_b_backward", speed, None), motor_b_backward(cfg.left, speed),
           FALSE, FALSE)

StopMotorA ==
    Do(CallRec("left.stop_motor_a", None, None), stop_motor_a(cfg.left), FALSE, FALSE)

StopMotorB ==
    Do(CallRec("left.stop_motor_b", None, None), stop_motor_b(cfg.left), FALSE, FALSE)

DriverStopAll ==
    Do(CallRec("left.stop_all", None, None), L298N_stop_all(cfg.left), FALSE, FALSE)

DriverCleanup ==
    Do(CallRec("left.cleanup", None, None), L298N_cleanup(cfg.left), FALSE, TRUE)

NextDriver ==
    \/ MotorAForward
    \/ MotorABackward
    \/ MotorBForward
    \/ MotorBBackward
    \/ StopMotorA
    \/ StopMotorB
    \/ DriverStopAll
    \/ DriverCleanup
    \/ StopAll
    \/ TankCleanup

SpecDriver == InitDriver /\ [][NextDriver]_vars

----------------------------------------------------------------------------
\* The PWM objects, used directly: pwm = GPIO.PWM(pin, 1000) for two pins,
\* created after GPIO.setmode or before it (LgpioPWM.handle is then None).

ScriptInits ==
    { <<Setmode, Setup(1), Setup(6), NewPWM(1, 1000), NewPWM(6, 1000)>>,
      <<NewPWM(1, 1000), NewPWM(6, 1000)>> }

InitPWM ==
    \E ops \in ScriptInits : Constructed(TankConfig(LeftFull, RightFull, 200), ops)

\* pwm.start(duty_cycle)
PwmStart ==
    \E pin \in ScriptPwmPins, duty_cycle \in Duties :
        Do(CallRec("pwm.start", pin, duty_cycle), <<Start(pin, duty_cycle)>>, FALSE, FALSE)

\* pwm.ChangeDutyCycle(duty_cycle)
PwmChangeDutyCycle ==
    \E pin \in ScriptPwmPins, duty_cycle \in Duties :
        Do(CallRec("pwm.ChangeDutyCycle", pin, duty_cycle),
           <<ChangeDuty(pin, duty_cycle)>>, FALSE, FALSE)

\* pwm.stop()
PwmStop ==
    \E pin \in ScriptPwmPins :
        Do(CallRec("pwm.stop", pin, None), <<StopPWM(pin)>>, FALSE, FALSE)

\* GPIO.cleanup()
GpioCleanup ==
    Do(CallRec("GPIO.cleanup", None, None), <<Cleanup>>, FALSE, FALSE)

NextPWM ==
    \/ PwmStart
    \/ PwmChangeDutyCycle
    \/ PwmStop
    \/ GpioCleanup

SpecPWM == InitPWM /\ [][NextPWM]_vars

(***************************************************************************)
(* What is observed of a channel                                           *)
(***************************************************************************)
\* The provider the process selected at import: lgpio first, else RPi.GPIO,
\* else simulation.
Provider ==
    IF PI5_AVAILABLE THEN "lgpio" ELSE IF RPI_GPIO_AVAILABLE THEN "rpi" ELSE "sim"

ChanA(p) == [d1 |-> p.in1, d2 |-> p.in2, en |-> p.ena]
ChanB(p) == [d1 |-> p.in3, d2 |-> p.in4, en |-> p.enb]

\* Channel B is configured: all of in3, in4 and enb were supplied.
CompleteB(p) == Truthy(p.in3) /\ Truthy(p.in4) /\ Truthy(p.enb)

BankChannels(p) == {ChanA(p)} \cup (IF CompleteB(p) THEN {ChanB(p)} ELSE {})
Channels(c) == BankChannels(c.left) \cup BankChannels(c.right)
FullyWired(c) == CompleteB(c.left) /\ CompleteB(c.right)

PinLevel(s, pin) == s.level[Provider][pin]
Duty(s, ch) == s.pwm[ch.en].duty_cycle

\* The duty the hardware was last given agrees with the stored duty.
DutyEmitted(s, ch) ==
    s.pwm[ch.en].kind = "lgpio" =>
        /\ s.pwm[ch.en].tx_duty = Duty(s, ch) * 10000
        /\ s.pwm[ch.en].tx_freq = 1000

IsForward(s, ch) == PinLevel(s, ch.d1) = HIGH /\ PinLevel(s, ch.d2) = LOW
IsBackward(s, ch) == PinLevel(s, ch.d1) = LOW /\ PinLevel(s, ch.d2) = HIGH
IsStopped(s, ch) ==
    PinLevel(s, ch.d1) = LOW /\ PinLevel(s, ch.d2) = LOW /\ Duty(s, ch) = 0
        /\ DutyEmitted(s, ch)

\* Both direction pins of the channel are HIGH, at some provider.
BothHigh(s, ch) ==
    \E b \in Providers : s.level[b][ch.d1] = HIGH /\ s.level[b][ch.d2] = HIGH

MotionOps == {"move_forward", "move_backward", "turn_left", "turn_right"}

(***************************************************************************)
(* Claims                                                                  *)
(***************************************************************************)
\* The number of calls of kind k among ops.
CountOps(ops, k) == Cardinality({i \in 1..Len(ops) : ops[i].k = k})

\* The pins and PWM objects of channel B of a bank.
ChannelBPins(p) == {x \in {p.in3, p.in4, p.enb} : Truthy(x)}

\* C1: for every motor channel and any sequence of forward, backward and stop
\* calls, the channel's two direction pins are never both HIGH, checked after
\* every single pin write of every call (also between the two direction
\* writes of one call).
C1_NeverBothHighAfterAnyWrite ==
    [][\A n \in 1..Len(trace') : \A ch \in Channels(cfg) :
          ~BothHigh(After(Cur, trace', n), ch)]_vars

\* C2: after TankController.cleanup() has completed, every later call of
\* move_forward, move_backward, turn_left, turn_right, stop_all or pan_camera
\* raises (UseAfterRelease), writes no pin and changes no duty.
C2_UseAfterReleaseFails ==
    (callsAfter > 0 /\ last.op \in MotionOps \cup {"stop_all", "pan_camera"}) =>
        (raised /\ trace = <<>>)

\* C3: one call of TankController.cleanup() performs the backend release
\* GPIO.cleanup exactly once.
C3_ReleasedExactlyOnce ==
    (last.op = "cleanup" /\ callsAfter = 0) => CountOps(trace, "cleanup") = 1

\* The direction each motion call gives the channels of the left and of the
\* right bank.
IsDirected(s, ch, dir) == IF dir = "F" THEN IsForward(s, ch) ELSE IsBackward(s, ch)
LeftDir(op) == IF op \in {"move_forward", "turn_right"} THEN "F" ELSE "B"
RightDir(op) == IF op \in {"move_forward", "turn_left"} THEN "F" ELSE "B"

AllStopped(s) == \A ch \in Channels(cfg) : IsStopped(s, ch)

\* C4: from any state reached by forward, backward and stop calls,
\* stop_motor_a, stop_motor_b (channel B configured) and stop_all (of a
\* driver and of the coordinator) leave every channel they address with both
\* direction pins LOW and duty 0.
C4_StopYieldsStopped ==
    ~released =>
        /\ last.op = "left.stop_motor_a" => IsStopped(Cur, ChanA(cfg.left))
        /\ (last.op = "left.stop_motor_b" /\ CompleteB(cfg.left)) =>
               IsStopped(Cur, ChanB(cfg.left))
        /\ last.op = "left.stop_all" =>
               \A ch \in BankChannels(cfg.left) : IsStopped(Cur, ch)
        /\ last.op = "stop_all" => AllStopped(Cur)

\* stop_motor_b has just stopped a configured channel B (lgpio provider).
C4_Witness ==
    /\ ~released /\ PI5_AVAILABLE /\ CompleteB(cfg.left)
    /\ last.op = "left.stop_motor_b"
    /\ IsStopped(Cur, ChanB(cfg.left))
    /\ IsBackward(Cur, ChanA(cfg.left)) /\ Duty(Cur, ChanA(cfg.left)) = 100

\* C5: a motion call given a duration (anything but None, 0 included) ends
\* with all four channels Stopped; without a duration the four channels hold
\* the direction and the duty the call set.
C5_DurationGivenEndsStopped ==
    (~released /\ FullyWired(cfg) /\ last.op \in MotionOps) =>
        IF last.d # None
        THEN AllStopped(Cur)
        ELSE /\ \A ch \in BankChannels(cfg.left) :
                    IsDirected(Cur, ch, LeftDir(last.op)) /\ Duty(Cur, ch) = last.a
             /\ \A ch \in BankChannels(cfg.right) :
                    IsDirected(Cur, ch, RightDir(last.op)) /\ Duty(Cur, ch) = last.a

\* C6: on a fully wired coordinator, move_forward(speed) without duration
\* leaves all four channels Forward (direction-1 HIGH, direction-2 LOW) with
\* duty speed; move_backward(speed) leaves all four Backward with duty speed.
C6_MoveDrivesAllFour ==
    (~released /\ FullyWired(cfg) /\ last.d = None) =>
        /\ Cardinality(Channels(cfg)) = 4
        /\ last.op = "move_forward" =>
               \A ch \in Channels(cfg) :
                   IsForward(Cur, ch) /\ Duty(Cur, ch) = last.a /\ DutyEmitted(Cur, ch)
        /\ last.op = "move_backward" =>
               \A ch \in Channels(cfg) :
                   IsBackward(Cur, ch) /\ Duty(Cur, ch) = last.a /\ DutyEmitted(Cur, ch)

\* move_backward(100) has just driven all four channels backward.
C6_Witness ==
    /\ ~released /\ FullyWired(cfg)
    /\ last = CallRec("move_backward", 100, None)
    /\ \A ch \in Channels(cfg) : IsBackward(Cur, ch) /\ Duty(Cur, ch) = 100

\* What is observed of a bank: levels of the direction pins and duty, per channel.
ChanView(s, ch) ==
    [d1 |-> PinLevel(s, ch.d1), d2 |-> PinLevel(s, ch.d2), duty |-> Duty(s, ch),
     tx_duty |-> s.pwm[ch.en].tx_duty]
BankView(s, p) == [A |-> ChanView(s, ChanA(p)), B |-> ChanView(s, ChanB(p))]

\* C7: from the same starting state and at the same speed, turn_left gives
\* the left bank (both channels Backward, duty speed) what turn_right gives
\* the right bank, and gives the right bank (both channels Forward, duty
\* speed) what turn_right gives the left bank.
C7_TurnsAreMirrors ==
    (~released /\ FullyWired(cfg)) =>
        \A speed \in Speeds :
            \E L \in {RunOps(Cur, turn_left(cfg, speed, None))},
               R \in {RunOps(Cur, turn_right(cfg, speed, None))} :
                /\ BankView(L, cfg.left) = BankView(R, cfg.right)
                /\ BankView(L, cfg.right) = BankView(R, cfg.left)
                /\ \A ch \in BankChannels(cfg.left) :
                       IsBackward(L, ch) /\ Duty(L, ch) = speed
                /\ \A ch \in BankChannels(cfg.right) :
                       IsForward(L, ch) /\ Duty(L, ch) = speed

\* turn_left(50) has just acted on a coordinator that was turning right.
C7_Witness ==
    /\ ~released /\ FullyWired(cfg)
    /\ last = CallRec("turn_left", 50, None)
    /\ \A ch \in BankChannels(cfg.left) : IsBackward(Cur, ch) /\ Duty(Cur, ch) = 50
    /\ \A ch \in BankChannels(cfg.right) : IsForward(Cur, ch) /\ Duty(Cur, ch) = 50

\* The levels of the four coil pins.
Coils(s) == [i \in 1..4 |-> PinLevel(s, cfg.gimbal[i])]
\* The pattern with the single coil of state step energized.
OneCoil(step) == [i \in 1..4 |-> IF i = step + 1 THEN 1 ELSE 0]

\* C8: for any sequence of step_motor calls with direction +1 or -1,
\* current_step stays in {0,1,2,3}, each call changes it by exactly the
\* requested +1 or -1 modulo 4, and after each call the four coil pins show
\* the table entry of current_step: state0=[1,0,0,0], state1=[0,1,0,0],
\* state2=[0,0,1,0], state3=[0,0,0,1].
C8_StepperSequence ==
    /\ current_step \in 0..3
    /\ (~released /\ last.op = "step_motor") => Coils(Cur) = OneCoil(current_step)
    /\ \A direction \in Directions :
          \E s \in {RunOps(Cur, step_motor(cfg.gimbal, direction))} :
              /\ s.current_step \in 0..3
              /\ s.current_step # current_step
              /\ (s.current_step - current_step - direction) % 4 = 0
              /\ ~released => Coils(s) = OneCoil(s.current_step)

\* step_motor(-1) has just stepped back from state 0 to state 3.
C8_Witness ==
    /\ ~released /\ last = CallRec("step_motor", -1, None)
    /\ current_step = 3
    /\ Coils(Cur) = <<0, 0, 0, 1>>

\* The step_motor calls among ops.
StepCalls(ops) == {i \in 1..Len(ops) : ops[i].k = "advance"}
\* round(|degrees| / 360 * steps_per_rev)
RoundedSteps(degrees, steps_per_rev) == (2 * Abs(degrees) * steps_per_rev + 360) \div 720

\* C9: rotate_degrees(degrees, speed) and pan_camera(degrees) issue exactly
\* round(|degrees| / 360 * steps_per_rev) step_motor calls, all in direction
\* +1 for positive and all in direction -1 for negative degrees; 360 degrees
\* at 200 steps per revolution is 200 steps, 90 degrees is 50 steps.
C9_RotateIssuesRoundedSteps ==
    /\ StepsFor(360, 200) = 200 /\ StepsFor(-90, 200) = 50 /\ StepsFor(90, 200) = 50
    /\ (last.op \in {"rotate_degrees", "pan_camera"} /\ ~raised) =>
          /\ Cardinality(StepCalls(trace)) = RoundedSteps(last.a, cfg.steps_per_rev)
          /\ \A i \in StepCalls(trace) : trace[i].val = (IF last.a > 0 THEN 1 ELSE -1)

\* C10: on a driver constructed without a complete channel B, motor_b_forward,
\* motor_b_backward, stop_motor_b, stop_all and cleanup raise nothing and
\* issue no call on a channel-B pin or PWM.
C10_AbsentChannelBIsNoOp ==
    (~CompleteB(cfg.left)
       /\ last.op \in {"left.motor_b_forward", "left.motor_b_backward",
                       "left.stop_motor_b", "left.stop_all", "left.cleanup"}) =>
        /\ ~raised
        /\ \A i \in 1..Len(trace) : trace[i].pin \notin ChannelBPins(cfg.left)

\* The PWM objects created through GPIO.PWM on the lgpio provider.
LgpioChannels(s) == {p \in PwmPins : s.pwm[p].made /\ s.pwm[p].kind = "lgpio"}

\* C11: whenever GPIO.cleanup() returns, no PWM channel created through
\* GPIO.PWM is still running: each has been stopped (running flag false,
\* output off) by the time the handle is closed.
C11_CleanupStopsEveryPWM ==
    [][\A n \in 1..Len(trace') :
          trace'[n].k = "cleanup" =>
              \E s \in {After(Cur, trace', n)} :
                  \A p \in LgpioChannels(s) : ~s.pwm[p].running]_vars

\* The providers other than the selected one have served no write.
OthersUntouched ==
    \A b \in Providers \ {Provider} : \A pin \in AllPins : level[b][pin] = LOW

\* C12: the provider is selected once (lgpio first, else RPi.GPIO, else
\* simulation) and stays fixed: in every state the provider that serves a
\* GPIO.output call is the selected one, also after cleanup(), and no other
\* provider has been written to.
C12_ProviderFixed ==
    /\ OutputProvider(Cur) = Provider
    /\ OthersUntouched

\* C13: there is one backend handle: constructing a TankController opens it
\* once, at every moment at most one handle is opened and not closed, and
\* after cleanup() none remains open.
C13_SingleHandle ==
    /\ Cardinality(opened) <= 1
    /\ (last.op = "__init__" /\ PI5_AVAILABLE) => nOpened = 1
    /\ (released /\ last.op = "cleanup") => opened = {}

\* The calls of TankController.cleanup() that write a pin, change a duty or
\* stop a PWM.
IsDriveOp(op) == op.k \in {"output", "coil", "ChangeDutyCycle", "start", "stop"}

\* C14: within TankController.cleanup() every pin write, duty change and PWM
\* stop of the left bank, the right bank and the turret happens before the
\* backend handle is released (GPIO.cleanup), and none happens after it.
C14_CleanupOrder ==
    (last.op = "cleanup" /\ callsAfter = 0) =>
        \A i \in 1..Len(trace) : \A j \in 1..Len(trace) :
            (trace[i].k = "cleanup" /\ IsDriveOp(trace[j])) => j < i

\* The PWM implementations of gpio_compat itself.
OwnPWM(w) == w.made /\ w.kind \in {"lgpio", "sim"}

\* The output of the PWM object is disabled.
OutputDisabled(w) ==
    w.kind = "lgpio" => (~w.running /\ (w.handle # None => w.tx_duty = 0))

\* C15: for LgpioPWM and SimulatedPWM and from any state, stop() has the
\* effect of ChangeDutyCycle(0) followed by disabling the output: after
\* stop() the stored duty_cycle is 0 and the output is disabled.
C15_StopIsChangeZero ==
    (last.op = "pwm.stop" /\ OwnPWM(pwm[last.a])) =>
        /\ pwm[last.a].duty_cycle = 0
        /\ OutputDisabled(pwm[last.a])

\* The duty last emitted for a running channel is the stored duty, as a
\* fraction of 1000000, at the channel's frequency.
EmittedIsStored(w) ==
    (w.kind = "lgpio" /\ w.running /\ w.handle # None) =>
        (w.tx_duty = w.duty_cycle * 10000 /\ w.tx_freq = w.frequency)

\* C16: for every duty in 0..100 and every channel state (not yet started,
\* running, stopped), after start(duty) or ChangeDutyCycle(duty) the stored
\* duty_cycle is duty, and the duty last emitted to the hardware for a
\* running channel is that stored duty.
C16_DutyStored ==
    /\ (last.op \in {"pwm.start", "pwm.ChangeDutyCycle"} /\ OwnPWM(pwm[last.a])) =>
           pwm[last.a].duty_cycle = last.d
    /\ \A p \in PwmPins : OwnPWM(pwm[p]) => EmittedIsStored(pwm[p])

\* ChangeDutyCycle(50) has just acted on a running lgpio channel whose duty
\* was 100, while the other channel had been started and stopped.
C16_Witness ==
    /\ last = CallRec("pwm.ChangeDutyCycle", 1, 50)
    /\ pwm[1].kind = "lgpio" /\ pwm[1].running
    /\ pwm[1].duty_cycle = 50 /\ pwm[1].tx_duty = 500000
    /\ pwm[6].tx_freq = 0 /\ ~pwm[6].running

\* The PWM objects that were started and not stopped.
StartedPWM == {p \in PwmPins : pwm[p].made /\ pwm[p].running}

\* C17: construction is all-or-nothing: when TankController(config_dir)
\* fails (a section of the pin mapping is missing after an earlier controller
\* was constructed) no pin remains claimed, no PWM channel remains started and
\* no backend handle remains open; otherwise all three controllers are
\* constructed.
C17_ConstructionAllOrNothing ==
    last.op = "__init__" =>
        IF raised
        THEN /\ claimed = {} /\ rpi_setup = {}
             /\ StartedPWM = {}
             /\ opened = {}
        ELSE /\ \A ch \in Channels(cfg) : pwm[ch.en].made
             /\ Len(trace) = Len(L298N_init(cfg.left)) + Len(L298N_init(cfg.right))
                                + Len(Stepper_init(cfg.gimbal))

\* The call wrote the level value to the pin.
Wrote(ops, pin, value) == \E i \in 1..Len(ops) : ops[i] = Output(pin, value)

\* The PWM object of the channel has been created and started.
PwmStarted(s, ch) ==
    /\ s.pwm[ch.en].made
    /\ s.pwm[ch.en].kind \in {"lgpio", "rpi"} => s.pwm[ch.en].running

\* The direction of the channel is Stopped: both direction pins are LOW.
DirectionStopped(s, ch) == PinLevel(s, ch.d1) = LOW /\ PinLevel(s, ch.d2) = LOW

\* C18: immediately after construction every configured motor channel is
\* Stopped (both direction pins written LOW, PWM started with duty 0) and the
\* stepper has current_step = 0 with all four coil pins written LOW; in
\* every state reached by the calls, a channel whose direction is Stopped
\* has duty 0.
C18_InitialStateStopped ==
    /\ last.op = "__init__" =>
           /\ \A ch \in Channels(cfg) :
                  /\ IsStopped(Cur, ch) /\ PwmStarted(Cur, ch)
                  /\ Wrote(trace, ch.d1, LOW) /\ Wrote(trace, ch.d2, LOW)
           /\ current_step = 0
           /\ Coils(Cur) = <<0, 0, 0, 0>>
           /\ \A i \in 1..4 : Wrote(trace, cfg.gimbal[i], LOW)
    /\ ~released =>
           \A ch \in Channels(cfg) :
               DirectionStopped(Cur, ch) => (Duty(Cur, ch) = 0 /\ DutyEmitted(Cur, ch))

\* stop_motor_a has just stopped channel A, which was driven, while channel B
\* of the same bank keeps running forward at duty 100.
C18_Witness ==
    /\ ~released /\ CompleteB(cfg.left)
    /\ last.op = "left.stop_motor_a"
    /\ DirectionStopped(Cur, ChanA(cfg.left)) /\ Duty(Cur, ChanA(cfg.left)) = 0
    /\ IsForward(Cur, ChanB(cfg.left)) /\ Duty(Cur, ChanB(cfg.left)) = 100

\* The forward, backward and stop calls of a driver and of the coordinator.
ChannelCalls ==
    {"left.motor_a_forward", "left.motor_a_backward", "left.motor_b_forward",
     "left.motor_b_backward", "left.stop_motor_a", "left.stop_motor_b",
     "left.stop_all", "stop_all"} \cup MotionOps

IsWriteOf(op, pin) == op.k = "output" /\ op.pin = pin
IsDutyOf(op, pin) == op.k = "ChangeDutyCycle" /\ op.pin = pin

\* In ops, every duty change of the channel directly follows the writes of
\* its two direction pins, and every write of direction-1 is directly
\* followed by the write of direction-2 and then the duty change.
DirectionThenDuty(ops, ch) ==
    /\ \A j \in 1..Len(ops) :
           IsDutyOf(ops[j], ch.en) =>
               (j >= 3 /\ IsWriteOf(ops[j - 2], ch.d1) /\ IsWriteOf(ops[j - 1], ch.d2))
    /\ \A i \in 1..Len(ops) :
           IsWriteOf(ops[i], ch.d1) =>
               (i + 2 <= Len(ops) /\ IsWriteOf(ops[i + 1], ch.d2)
                    /\ IsDutyOf(ops[i + 2], ch.en))

\* C19: in every forward, backward and stop call on a channel both
\* direction-pin writes complete before the call's duty change, and no duty
\* change is issued between the two direction-pin writes.
C19_DirectionThenDuty ==
    last.op \in ChannelCalls => \A ch \in Channels(cfg) : DirectionThenDuty(trace, ch)

\* motor_b_backward(50) has just issued its two direction writes and then its
\* duty change.
C19_Witness ==
    /\ last = CallRec("left.motor_b_backward", 50, None)
    /\ trace = <<Output(4, LOW), Output(5, HIGH), ChangeDuty(6, 50)>>

\* C20: from any state, StepperMotor.stop() sets all four coil pins LOW and
\* leaves current_step (and everything but the pin levels) unchanged; a
\* following step_motor(direction) energizes the coil adjacent, in that
\* direction modulo 4, to the coil of current_step before stop().
C20_StopKeepsStep ==
    ~released =>
        /\ last.op = "gimbal_stop" => Coils(Cur) = <<0, 0, 0, 0>>
        /\ \E s \in {RunOps(Cur, Stepper_stop(cfg.gimbal))} :
              /\ Coils(s) = <<0, 0, 0, 0>>
              /\ s.current_step = current_step
              /\ [s EXCEPT !.level = level] = Cur
              /\ \A direction \in Directions :
                    \E u \in {RunOps(s, step_motor(cfg.gimbal, direction))} :
                        /\ u.current_step = (current_step + direction) % 4
                        /\ Coils(u) = OneCoil((current_step + direction) % 4)

\* stop() has just de-energized the coils of a stepper standing at state 2.
C20_Witness ==
    /\ ~released /\ last.op = "gimbal_stop"
    /\ current_step = 2
    /\ Coils(Cur) = <<0, 0, 0, 0>>

\* __init__ claims the three pins of channel B as outputs.
ClaimsChannelB(p) ==
    \E i \in 1..Len(L298N_init_setup(p)) :
        L298N_init_setup(p)[i].pin \in ChannelBPins(p)
\* __init__ creates and starts pwm_b.
CreatesPwmB(p) ==
    \E i \in 1..Len(L298N_init_pwm(p)) : L298N_init_pwm(p)[i] = NewPWM(p.enb, 1000)
\* The channel-B calls act: they issue a write or a duty change.
ForwardBActs(p) == motor_b_forward(p, 50) # <<>>
BackwardBActs(p) == motor_b_backward(p, 50) # <<>>
StopBActs(p) == stop_motor_b(p) # <<>>

\* C21: whether channel B is present is one decision, the same everywhere:
\* for every combination of supplied and absent in3, in4, enb (a pin number
\* of 0 included), the channel's pins are claimed as outputs if and only if
\* pwm_b is created, if and only if motor_b_forward, motor_b_backward and
\* stop_motor_b act on the channel.
C21_ChannelBPresenceIsOneDecision ==
    /\ ClaimsChannelB(cfg.left) <=> CreatesPwmB(cfg.left)
    /\ ClaimsChannelB(cfg.left) <=> ForwardBActs(cfg.left)
    /\ ClaimsChannelB(cfg.left) <=> BackwardBActs(cfg.left)
    /\ ClaimsChannelB(cfg.left) <=> StopBActs(cfg.left)
    /\ CreatesPwmB(cfg.left) <=> pwm[6].made
    /\ last.op = "left.stop_motor_b" => (ClaimsChannelB(cfg.left) <=> trace # <<>>)

\* The pin of the call is claimed as an output at the provider that serves
\* the call in state s: with lgpio on the chip handle that is open, with
\* RPi.GPIO in the library.  The simulation claims nothing.
ClaimedForWrite(s, pin) ==
    IF PI5_AVAILABLE
    THEN s.handle # None /\ s.handle \in s.opened /\ <<s.handle, pin>> \in s.claimed
    ELSE RPI_GPIO_AVAILABLE => pin \in s.rpi_setup

\* The PWM object emits on the chip handle that is open in state s.
PwmOnOpenHandle(s, pin) ==
    s.pwm[pin].kind = "lgpio" => (s.pwm[pin].handle = s.handle /\ s.handle # None)

\* C22: every GPIO.output and every PWM start or duty change of a driver or
\* coordinator call targets a pin that was claimed as an output earlier, on
\* the backend handle that is open at the time of the write, and uses no
\* other handle than the open one.
C22_WritesTargetClaimedPins ==
    [][\A n \in 1..Len(trace') :
          \E s \in {After(Cur, trace', n - 1)} :
              /\ trace'[n].k \in {"output", "coil"} => ClaimedForWrite(s, trace'[n].pin)
              /\ trace'[n].k \in {"start", "ChangeDutyCycle"} =>
                     (ClaimedForWrite(s, trace'[n].pin) /\ PwmOnOpenHandle(s, trace'[n].pin))]_vars

----------------------------------------------------------------------------
\* Both banks' drivers and the turret, called directly in any order:
\* tank.left_controller, tank.right_controller, tank.gimbal

Banks == {"left", "right"}
ChannelAMethods == {"motor_a_forward", "motor_a_backward", "stop_motor_a"}
ChannelBMethods == {"motor_b_forward", "motor_b_backward", "stop_motor_b"}
BankMethods == ChannelAMethods \cup ChannelBMethods \cup {"bank.stop_all"}
\* The speed of the direct calls (the default of the methods).
DefaultSpeed == 50

BankOf(c, bank) == IF bank = "left" THEN c.left ELSE c.right
OtherBank(c, bank) == IF bank = "left" THEN c.right ELSE c.left

\* The GPIO-level calls of method m of the driver with pins p.
BankMethodOps(m, p, speed) ==
    CASE m = "motor_a_forward" -> motor_a_forward(p, speed)
      [] m = "motor_a_backward" -> motor_a_backward(p, speed)
      [] m = "stop_motor_a" -> stop_motor_a(p)
      [] m = "motor_b_forward" -> motor_b_forward(p, speed)
      [] m = "motor_b_backward" -> motor_b_backward(p, speed)
      [] m = "stop_motor_b" -> stop_motor_b(p)
      [] m = "bank.stop_all" -> L298N_stop_all(p)

BankCallRec(bank, m, speed) == [op |-> m, a |-> speed, d |-> None, bank |-> bank]

InitFrame == Constructed(TankConfig(LeftFull, RightFull, 200),
                         init_motors(TankConfig(LeftFull, RightFull, 200)))

\* tank.<bank>_controller.<m>(speed)
BankCall ==
    \E bank \in Banks, m \in BankMethods :
        Do(BankCallRec(bank, m, DefaultSpeed),
           BankMethodOps(m, BankOf(cfg, bank), DefaultSpeed), FALSE, FALSE)

NextFrame ==
    \/ BankCall
    \/ StopAll
    \/ StepMotor
    \/ GimbalStop

SpecFrame == InitFrame /\ [][NextFrame]_vars

\* The pins and the PWM objects of a channel and of a bank.
DirPinsA(p) == {p.in1, p.in2}
DirPinsB(p) == {x \in {p.in3, p.in4} : Truthy(x)}
EnablesA(p) == {p.ena}
EnablesB(p) == {x \in {p.enb} : Truthy(x)}

\* The step leaves the levels of the pins P (at every provider) and the PWM
\* objects E as they were.
Unchanged(P, E) ==
    /\ \A b \in Providers : \A pin \in P : level'[b][pin] = level[b][pin]
    /\ \A e \in E : pwm'[e] = pwm[e]

BankUnchanged(p) == Unchanged(DirPinsA(p) \cup DirPinsB(p), EnablesA(p) \cup EnablesB(p))
StepperUnchanged ==
    /\ current_step' = current_step
    /\ Unchanged({cfg.gimbal[i] : i \in 1..4}, {})

\* C23: a channel-A call leaves channel B's direction pins and duty unchanged
\* and a channel-B call those of channel A; a call on one bank's driver
\* (other than cleanup) leaves the other bank's pins and duties unchanged; no
\* motor call changes the stepper's current_step or coil pins; no stepper
\* call changes a motor pin or duty.
C23_CallsChangeOnlyWhatTheyAddress ==
    [][/\ last'.op \in ChannelAMethods =>
              Unchanged(DirPinsB(BankOf(cfg, last'.bank)), EnablesB(BankOf(cfg, last'.bank)))
       /\ last'.op \in ChannelBMethods =>
              Unchanged(DirPinsA(BankOf(cfg, last'.bank)), EnablesA(BankOf(cfg, last'.bank)))
       /\ last'.op \in BankMethods =>
              (BankUnchanged(OtherBank(cfg, last'.bank)) /\ StepperUnchanged)
       /\ last'.op = "stop_all" => StepperUnchanged
       /\ last'.op \in {"step_motor", "gimbal_stop"} =>
              (BankUnchanged(cfg.left) /\ BankUnchanged(cfg.right))]_vars

\* motor_b_backward has just acted on the right bank while the left bank's
\* channel A runs forward and the turret stands at state 3 with its coil
\* energized.
C23_Witness ==
    /\ last = BankCallRec("right", "motor_b_backward", DefaultSpeed)
    /\ IsBackward(Cur, ChanB(cfg.right)) /\ Duty(Cur, ChanB(cfg.right)) = DefaultSpeed
    /\ IsForward(Cur, ChanA(cfg.left)) /\ Duty(Cur, ChanA(cfg.left)) = DefaultSpeed
    /\ IsStopped(Cur, ChanA(cfg.right))
    /\ current_step = 3 /\ Coils(Cur) = <<0, 0, 0, 1>>

----------------------------------------------------------------------------
\* The turret panned back and forth: tank.pan_camera(degrees), at 200, 48 and
\* 20 steps per revolution.

PanAngles == {-90, -45, -1, 0, 1, 45, 90}

PanConfigs == { TankConfig(LeftFull, RightFull, spr) : spr \in {200, 48, 20} }

InitPan == \E c \in PanConfigs : Constructed(c, init_motors(c))

PanBy ==
    \E degrees \in PanAngles :
        /\ StepsFor(degrees, cfg.steps_per_rev) <= MaxSteps
        /\ Do(CallRec("pan_camera", degrees, None), pan_camera(cfg, degrees), FALSE, FALSE)

NextPan ==
    \/ PanBy
    \/ StepMotor
    \/ GimbalStop

SpecPan == InitPan /\ [][NextPan]_vars

\* pan_camera(d) followed by pan_camera(-d), from the current state: the two
\* calls issue the same number of steps, in opposite directions, and
\* current_step (with the coil, if one was energized) is back where it was.
PanPairReturns(d) ==
    LET there == pan_camera(cfg, d)
        back == pan_camera(cfg, -d)
    IN /\ Cardinality(StepCalls(there)) = Cardinality(StepCalls(back))
       /\ \A i \in StepCalls(there) : \A j \in StepCalls(back) :
              there[i].val = -back[j].val
       /\ \E s \in {RunOps(Cur, there \o back)} :
              /\ s.current_step = current_step
              /\ (~released /\ Coils(Cur) = OneCoil(current_step)) => Coils(s) = Coils(Cur)

\* current_step after pan_camera(45), pan_camera(-90), pan_camera(45).
StepAfterTriple ==
    RunOps(Cur, pan_camera(cfg, 45) \o pan_camera(cfg, -90) \o pan_camera(cfg, 45)).current_step

\* A quarter turn takes exactly twice the steps of an eighth of a turn.
QuarterIsTwoEighths ==
    StepsFor(90, cfg.steps_per_rev) = 2 * StepsFor(45, cfg.steps_per_rev)

\* C24 (as stated): for every degrees value d and every starting
\* current_step, pan_camera(d) followed by pan_camera(-d) issues the same
\* number of steps in opposite directions and returns current_step (and the
\* energized coil) to its starting value; likewise pan 45, pan -90, pan 45
\* returns the turret to its starting step.
C24_PanReversible_AsStated ==
    /\ \A d \in PanAngles : PanPairReturns(d)
    /\ StepAfterTriple = current_step

\* C24 (amended): pan_camera(d) followed by pan_camera(-d) returns the turret
\* to its starting step for every d; pan 45, pan -90, pan 45 returns it
\* exactly when a quarter turn is twice the steps of an eighth (as at 200 and
\* 48 steps per revolution), and otherwise leaves it one step behind (as at
\* 20 steps per revolution: 2 - 5 + 2).
C24_PanReversible ==
    /\ \A d \in PanAngles : PanPairReturns(d)
    /\ IF QuarterIsTwoEighths
       THEN StepAfterTriple = current_step
       ELSE StepAfterTriple = (current_step - 1) % 4

\* pan_camera(-45) has just brought the turret back to state 0 at 20 steps
\* per revolution, where panning 45, -90, 45 would leave it at state 3.
C24_Witness ==
    /\ ~released /\ cfg.steps_per_rev = 20
    /\ last = CallRec("pan_camera", -45, None)
    /\ Cardinality(StepCalls(trace)) = 2
    /\ current_step = 0 /\ Coils(Cur) = <<1, 0, 0, 0>>
    /\ StepAfterTriple = 3

\* The duty cycles of the PWM interface, in percent.
DutyRange == 0..100

\* The PWM object emits through lgpio.
EmitsToLgpio(w) == w.made /\ w.kind = "lgpio" /\ w.handle # None

\* C25: the lgpio provider's conversion of a duty in 0..100 to the range
\* 0..1000000 gives 0 for 0, 1000000 for 100 and duty * 10000 for every
\* integer duty between, and start and ChangeDutyCycle emit the same
\* converted value for the same duty.
C25_DutyConversionExact ==
    /\ DutyToLgpio(0) = 0
    /\ DutyToLgpio(100) = 1000000
    /\ \A duty \in DutyRange : DutyToLgpio(duty) = duty * 10000
    /\ (last.op = "pwm.start" /\ EmitsToLgpio(pwm[last.a])) =>
           pwm[last.a].tx_duty = last.d * 10000
    /\ (last.op = "pwm.ChangeDutyCycle" /\ EmitsToLgpio(pwm[last.a]) /\ pwm[last.a].running) =>
           pwm[last.a].tx_duty = last.d * 10000
    /\ \A p \in ScriptPwmPins : \A duty \in Duties :
           EmitsToLgpio(pwm[p]) =>
               LgpioPWM_start(pwm[p], duty).tx_duty
                   = LgpioPWM_ChangeDutyCycle([pwm[p] EXCEPT !.running = TRUE], duty).tx_duty

\* start(1) has just emitted 10000 on the second lgpio channel.
C25_Witness ==
    /\ last = CallRec("pwm.start", 6, 1)
    /\ EmitsToLgpio(pwm[6]) /\ pwm[6].running
    /\ pwm[6].tx_duty = 10000 /\ pwm[6].tx_freq = 1000

====
